---- MODULE Spec2Model ----
(***************************************************************************)
(* Model of verify_wesco_cleanup.py: the WESCO cleanup verifier.           *)
(*                                                                         *)
(* A JSON branch record is a function from the keys it carries to values.  *)
(* A value is None (JSON null) or Str(s) for a string s, so that a key     *)
(* that is absent, a key that is null and a key that is the empty string   *)
(* are three different things, as they are for dict.get in the source.     *)
(* Strings are TLA+ strings; substring containment and concatenation are   *)
(* computed character by character.                                        *)
(***************************************************************************)
EXTENDS Integers, Sequences, FiniteSets, TLC

VARIABLES
    base_exists,        \* does supplyfind-updates/us/co exist
    files,              \* the file system: per file, presence and its branches
    pc,                 \* position of the run
    all_wesco_entries,  \* the aggregate
    total_branches,     \* branches scanned so far
    unique_locations,   \* the dedup dict, in insertion order
    success,            \* the local flag of the validation step
    out,                \* the diagnostics printed so far
    exc,                \* the exception that aborted the run, if any
    ret,                \* what verify_wesco_cleanup returned
    exit_status         \* the status given to sys.exit

vars == <<base_exists, files, pc, all_wesco_entries, total_branches,
          unique_locations, success, out, exc, ret, exit_status>>

-----------------------------------------------------------------------------
(* Bounds of the model *)

MaxRecords == 3
MaxPresentFile == 2

-----------------------------------------------------------------------------
(* Python values *)

None == <<>>
Str(s) == <<s>>

\* dict.get(k): None when the key is absent
Get(b, k) == IF k \in DOMAIN b THEN b[k] ELSE None

\* dict.get(k, ''): the empty string when the key is absent
GetOrEmpty(b, k) == IF k \in DOMAIN b THEN b[k] ELSE Str("")

\* sub in s, on two strings
In(sub, s) ==
    \E i \in 1..(Len(s) - Len(sub) + 1) : SubSeq(s, i, i + Len(sub) - 1) = sub

\* f"{v}"
Format(v) == IF v = None THEN "None" ELSE v[1]

-----------------------------------------------------------------------------
(* Constants of the script *)

NumFiles == 6

FilePath(i) ==
    CASE i = 1 -> "us/co/denver-metro.json"
      [] i = 2 -> "us/co/electrical/denver-metro.json"
      [] i = 3 -> "us/co/electrical/front-range-north.json"
      [] i = 4 -> "us/co/electrical/pueblo-south.json"
      [] i = 5 -> "us/co/electrical/colorado-springs-metro.json"
      [] i = 6 -> "us/co/electrical/boulder-broomfield-longmont.json"

invalid_addresses == <<"756 S Jason", "6883 E 47th", "133 Commerce">>

ExpectedLocations == 2

-----------------------------------------------------------------------------
(* Filter: lines 56-61.  The three membership tests are evaluated left to  *)
(* right with short circuit; a test against None raises TypeError.         *)

\* variant: "KVA" is looked for in chain as well as in name
IsWescoEntryAnyField(b) ==
    LET chain == GetOrEmpty(b, "chain")
        name  == GetOrEmpty(b, "name")
    IN  IF chain = None THEN "TypeError"
        ELSE IF In("WESCO", chain[1]) \/ In("KVA", chain[1]) THEN "match"
        ELSE IF name = None THEN "TypeError"
        ELSE IF In("WESCO", name[1]) THEN "match"
        ELSE IF In("KVA", name[1]) THEN "match"
        ELSE "nomatch"

IsWescoEntry(b) ==
    LET chain == GetOrEmpty(b, "chain")
        name  == GetOrEmpty(b, "name")
    IN  IF chain = None THEN "TypeError"
        ELSE IF In("WESCO", chain[1]) THEN "match"
        ELSE IF name = None THEN "TypeError"
        ELSE IF In("WESCO", name[1]) THEN "match"
        ELSE IF In("KVA", name[1]) THEN "match"
        ELSE "nomatch"

\* lines 69-78
MakeEntry(i, b) ==
    [file           |-> FilePath(i),
     name           |-> Get(b, "name"),
     chain          |-> Get(b, "chain"),
     city           |-> Get(b, "city"),
     address        |-> Get(b, "address1"),
     phone          |-> Get(b, "phone"),
     verified       |-> Get(b, "last_verified"),
     operating_name |-> Get(b, "operatingName")]

RECURSIVE WescoEntries(_, _)
WescoEntries(i, branches) ==
    IF branches = <<>> THEN <<>>
    ELSE IF IsWescoEntry(Head(branches)) = "match"
         THEN <<MakeEntry(i, Head(branches))>> \o WescoEntries(i, Tail(branches))
         ELSE WescoEntries(i, Tail(branches))

FilterRaises(branches) ==
    \E k \in DOMAIN branches : IsWescoEntry(branches[k]) = "TypeError"

-----------------------------------------------------------------------------
(* Deduplication: lines 92-99 *)

LocationKey(entry) == Format(entry.city) \o "-" \o Format(entry.address)

HasKey(dict, key) == \E k \in DOMAIN dict : dict[k].key = key

\* variant: a later entry replaces the one stored under its key
DictPutLastWins(dict, key, entry) ==
    IF HasKey(dict, key)
    THEN [k \in DOMAIN dict |->
            IF dict[k].key = key THEN [key |-> key, entry |-> entry] ELSE dict[k]]
    ELSE Append(dict, [key |-> key, entry |-> entry])

DictPut(dict, key, entry) ==
    IF HasKey(dict, key) THEN dict
    ELSE Append(dict, [key |-> key, entry |-> entry])

RECURSIVE DedupInto(_, _)
DedupInto(dict, entries) ==
    IF entries = <<>> THEN dict
    ELSE DedupInto(DictPut(dict, LocationKey(Head(entries)), Head(entries)),
                   Tail(entries))

Deduplicate(entries) == DedupInto(<<>>, entries)

DictValues(dict) == [k \in DOMAIN dict |-> dict[k].entry]

-----------------------------------------------------------------------------
(* Validation helpers: lines 102-183 *)

\* e['city'] == city and sub in e['address'], with its short circuit
CityAddrTest(e, city, sub) ==
    IF e.city # Str(city) THEN "no"
    ELSE IF e.address = None THEN "TypeError"
    ELSE IF In(sub, e.address[1]) THEN "yes" ELSE "no"

\* variant: the address is compared for equality
AddrTestExact(e, sub) ==
    IF e.address = None THEN "TypeError"
    ELSE IF e.address[1] = sub THEN "yes" ELSE "no"

\* sub in e['address']
AddrTest(e, sub) ==
    IF e.address = None THEN "TypeError"
    ELSE IF In(sub, e.address[1]) THEN "yes" ELSE "no"

SelectCityAddr(entries, city, sub) ==
    SelectSeq(entries, LAMBDA e : CityAddrTest(e, city, sub) = "yes")

CityAddrRaises(entries, city, sub) ==
    \E k \in DOMAIN entries : CityAddrTest(entries[k], city, sub) = "TypeError"

AddrRaises(entries, sub) ==
    \E k \in DOMAIN entries : AddrTest(entries[k], sub) = "TypeError"

\* variant: more than the expected number of locations is accepted
CountAtLeast(n) == n >= ExpectedLocations

CountOK(n) == n = ExpectedLocations

\* variant: only the first Denver entry is examined
DenverFirstConsistent(denver_kva) ==
    /\ denver_kva[1].name = Str("KVA Supply Co")
    /\ denver_kva[1].chain = Str("WESCO")

DenverConsistent(denver_kva) ==
    \A k \in DOMAIN denver_kva :
        /\ denver_kva[k].name = Str("KVA Supply Co")
        /\ denver_kva[k].chain = Str("WESCO")

\* variant: repeated Pueblo entries are accepted
PuebloCountAtLeastOne(pueblo_wesco) == Len(pueblo_wesco) >= 1

PuebloCountOK(pueblo_wesco) == Len(pueblo_wesco) = 1

-----------------------------------------------------------------------------
(* Inputs.  A file system is the base directory and, for each path of      *)
(* files_to_check, whether the file exists, whether it parses as JSON and  *)
(* the branches it holds.  Up to MaxRecords records are laid out, in       *)
(* order, over the first MaxPresentFile paths; a path that received no     *)
(* record is absent, or (touch) an empty or a malformed document.          *)

Placements(n) ==
    { place \in [1..n -> 1..MaxPresentFile] :
        \A j \in 1..n, k \in 1..n : j < k => place[j] <= place[k] }

BranchesAt(recs, place, i) ==
    LET pairs == [k \in DOMAIN recs |-> <<place[k], recs[k]>>]
        mine  == SelectSeq(pairs, LAMBDA p : p[1] = i)
    IN  [k \in 1..Len(mine) |-> mine[k][2]]

MkFiles(recs, place, touch) ==
    [i \in 1..NumFiles |->
        LET branches == BranchesAt(recs, place, i)
        IN  [exists   |-> \/ branches # <<>>
                          \/ (touch # "absent" /\ i <= MaxPresentFile),
             valid    |-> branches # <<>> \/ touch # "malformed",
             branches |-> branches]]

NoFiles == [i \in 1..NumFiles |-> [exists |-> FALSE, valid |-> TRUE, branches |-> <<>>]]

InitWith(Pool) ==
    /\ base_exists \in BOOLEAN
    /\ IF base_exists
       THEN \E n \in 0..MaxRecords : \E recs \in [1..n -> Pool] :
            \E place \in Placements(n) : \E touch \in {"absent", "empty", "malformed"} :
                files = MkFiles(recs, place, touch)
       ELSE files = NoFiles
    /\ pc = "start"
    /\ all_wesco_entries = <<>>
    /\ total_branches = 0
    /\ unique_locations = <<>>
    /\ success = TRUE
    /\ out = {}
    /\ exc = "none"
    /\ ret = "none"
    /\ exit_status = -1

-----------------------------------------------------------------------------
(* The run *)

\* lines 21-44: the base directory test and the accumulators
Start ==
    /\ pc = "start"
    /\ IF ~base_exists
       THEN /\ out' = out \cup {"ERROR: directory not found"}
            /\ ret' = "False"
            /\ pc' = "returned"
       ELSE /\ pc' = "scan"
            /\ UNCHANGED <<out, ret>>
    /\ all_wesco_entries' = <<>>
    /\ total_branches' = 0
    /\ UNCHANGED <<base_exists, files, unique_locations, success, exc, exit_status>>

\* lines 46-83: the loop over files_to_check from path i on.  acc carries the
\* aggregate, the branch count, the listings printed and the exception raised.
RECURSIVE ScanFrom(_, _, _)
ScanFrom(fs, i, acc) ==
    IF i > NumFiles THEN acc
    ELSE LET f == fs[i]
         IN  IF ~f.exists THEN ScanFrom(fs, i + 1, acc)
             ELSE IF ~f.valid THEN [acc EXCEPT !.exc = "JSONDecodeError"]
             ELSE IF FilterRaises(f.branches)
             THEN [acc EXCEPT !.exc = "TypeError",
                              !.total = acc.total + Len(f.branches)]
             ELSE LET wesco_entries == WescoEntries(i, f.branches)
                  IN  ScanFrom(fs, i + 1,
                        [entries |-> acc.entries \o wesco_entries,
                         total   |-> acc.total + Len(f.branches),
                         out     |-> IF wesco_entries # <<>>
                                     THEN acc.out \cup {"LISTING: " \o FilePath(i)}
                                     ELSE acc.out,
                         exc     |-> acc.exc])

ScanFiles ==
    /\ pc = "scan"
    /\ LET r == ScanFrom(files, 1,
                  [entries |-> all_wesco_entries, total |-> total_branches,
                   out |-> out, exc |-> "none"])
       IN  /\ all_wesco_entries' = r.entries
           /\ total_branches' = r.total
           /\ out' = r.out
           /\ exc' = r.exc
           /\ pc' = IF r.exc = "none" THEN "dedup" ELSE "raised"
    /\ UNCHANGED <<base_exists, files, unique_locations, success, ret, exit_status>>

\* lines 85-100: the summary and the dedup dict
Dedup ==
    /\ pc = "dedup"
    /\ unique_locations' = Deduplicate(all_wesco_entries)
    /\ out' = out \cup {"SUMMARY"}
    /\ pc' = "validate"
    /\ UNCHANGED <<base_exists, files, all_wesco_entries, total_branches,
                   success, exc, ret, exit_status>>

\* variant: fewer than the expected number of locations passes
CountVerdictUpTo(n) ==
    IF n <= ExpectedLocations THEN "PASS: unique locations" ELSE "FAIL: unique locations"

\* lines 105-110: check 1
CountVerdict(n) ==
    IF CountOK(n) THEN "PASS: unique locations" ELSE "FAIL: unique locations"

\* variant: a missing operatingName is a failure
DenverVerdictStrict(denver_kva) ==
    IF Len(denver_kva) < 1 THEN "FAIL: Denver entry missing"
    ELSE LET entry == denver_kva[1]
         IN  IF ~DenverConsistent(denver_kva) THEN "FAIL: Denver entries inconsistent"
             ELSE IF entry.name # Str("KVA Supply Co") THEN "FAIL: Denver name"
             ELSE IF entry.chain # Str("WESCO") THEN "FAIL: Denver chain"
             ELSE IF entry.operating_name # Str("KVA Supply Co")
                  THEN "FAIL: Denver operatingName"
             ELSE "PASS: Denver"

\* lines 118-147: checks 2 and 3
DenverVerdict(denver_kva) ==
    IF Len(denver_kva) < 1 THEN "FAIL: Denver entry missing"
    ELSE LET entry == denver_kva[1]
         IN  IF ~DenverConsistent(denver_kva) THEN "FAIL: Denver entries inconsistent"
             ELSE IF entry.name # Str("KVA Supply Co") THEN "FAIL: Denver name"
             ELSE IF entry.chain # Str("WESCO") THEN "FAIL: Denver chain"
             ELSE IF entry.operating_name # Str("KVA Supply Co")
                  THEN "WARNING: Denver operatingName"
             ELSE "PASS: Denver"

\* lines 155-166: check 4
PuebloVerdict(pueblo_wesco) ==
    IF ~PuebloCountOK(pueblo_wesco) THEN "FAIL: Pueblo entry count"
    ELSE IF pueblo_wesco[1].chain # Str("WESCO") THEN "FAIL: Pueblo chain"
    ELSE "PASS: Pueblo"

\* lines 177-183: check 5, one address
RemovedVerdict(entries, addr) ==
    IF \E k \in DOMAIN entries : AddrTest(entries[k], addr) = "yes"
    THEN "FAIL: not removed: " \o addr
    ELSE "PASS: removed: " \o addr

RemovedVerdicts(entries) ==
    { RemovedVerdict(entries, invalid_addresses[k]) : k \in DOMAIN invalid_addresses }

IsFail(msg) == SubSeq(msg, 1, 4) = "FAIL"

\* lines 102-183: the checks in order; a TypeError leaves the later ones unprinted
Verdicts(entries, uniq) ==
    LET c1 == {CountVerdict(Len(uniq))}
    IN  IF CityAddrRaises(entries, "Denver", "11198 E 45th")
        THEN [msgs |-> c1, exc |-> "TypeError"]
        ELSE LET c2 == c1 \cup
                    {DenverVerdict(SelectCityAddr(entries, "Denver", "11198 E 45th"))}
        IN  IF CityAddrRaises(entries, "Pueblo", "115 S Main")
            THEN [msgs |-> c2, exc |-> "TypeError"]
            ELSE LET c3 == c2 \cup
                        {PuebloVerdict(SelectCityAddr(entries, "Pueblo", "115 S Main"))}
            IN  IF AddrRaises(entries, invalid_addresses[1])
                THEN [msgs |-> c3, exc |-> "TypeError"]
                ELSE [msgs |-> c3 \cup RemovedVerdicts(entries), exc |-> "none"]

\* lines 102-202: the validation step, the banner and the return
Validate ==
    /\ pc = "validate"
    /\ LET v  == Verdicts(all_wesco_entries, unique_locations)
           ok == ~(\E m \in v.msgs : IsFail(m))
       IN  /\ success' = ok
           /\ exc' = v.exc
           /\ IF v.exc # "none"
              THEN /\ out' = out \cup v.msgs
                   /\ pc' = "raised"
                   /\ ret' = ret
              ELSE /\ out' = out \cup v.msgs \cup
                         {IF ok THEN "ALL CHECKS PASSED" ELSE "SOME CHECKS FAILED"}
                   /\ pc' = "returned"
                   /\ ret' = IF ok THEN "True" ELSE "False"
    /\ UNCHANGED <<base_exists, files, all_wesco_entries, total_branches,
                   unique_locations, exit_status>>

\* lines 204-207: sys.exit on the returned flag; an exception that reached the
\* top level ends the process with status 1
SysExit ==
    /\ pc \in {"returned", "raised"}
    /\ exit_status' = IF pc = "returned" /\ ret = "True" THEN 0 ELSE 1
    /\ pc' = IF pc = "returned" THEN "exited" ELSE "aborted"
    /\ UNCHANGED <<base_exists, files, all_wesco_entries, total_branches,
                   unique_locations, success, out, exc, ret>>

Next ==
    \/ Start
    \/ ScanFiles
    \/ Dedup
    \/ Validate
    \/ SysExit

-----
(* Branch records used as inputs *)

Branch(name, chain, city, address1) ==
    [name |-> Str(name), chain |-> Str(chain), city |-> Str(city),
     address1 |-> Str(address1)]

With(b, k, v) == [x \in DOMAIN b \cup {k} |-> IF x = k THEN v ELSE b[x]]

Without(b, k) == [x \in DOMAIN b \ {k} |-> b[x]]

DenverKVA == With(Branch("KVA Supply Co", "WESCO", "Denver", "11198 E 45th Ave"),
                  "operatingName", Str("KVA Supply Co"))
DenverKVANoOp == Branch("KVA Supply Co", "WESCO", "Denver", "11198 E 45th Ave")
PuebloWesco == Branch("WESCO", "WESCO", "Pueblo", "115 S Main St")

\* a matched location that is neither expected nor forbidden
AuroraWesco == Branch("WESCO", "WESCO", "Aurora", "1 Elm St")

\* a matched record at a forbidden address
JasonWesco == Branch("WESCO", "WESCO", "Denver", "756 S Jason St")

\* a record the filter skips, at the Denver address
AcmeDenver == Branch("Acme", "Acme", "Denver", "11198 E 45th Ave")

\* the duplicate Denver entry, by chain
DupDenver(chain) == Branch("Other Co", chain, "Denver", "11198 E 45th Ave")

PoolChecks ==
    { DenverKVA, DenverKVANoOp, PuebloWesco, AuroraWesco, JasonWesco,
      Branch("WESCO", "WESCO Distribution", "Pueblo", "115 S Main St"),
      DupDenver("WESCO") }

PoolAnomaly ==
    { DenverKVA, PuebloWesco,
      Without(PuebloWesco, "address1"),
      Without(AuroraWesco, "city"),
      Without(DenverKVA, "chain"),
      With(AuroraWesco, "chain", None),
      With(AcmeDenver, "name", None) }

PoolDup ==
    { DenverKVA, PuebloWesco, DupDenver("WESCO"), DupDenver("WESCO Distribution"),
      DupDenver("Other"), Without(DupDenver("Other"), "chain"),
      With(DupDenver("Other"), "chain", None) }

PoolRemoved ==
    { DenverKVA, JasonWesco,
      Branch("Acme Electric", "Acme", "Denver", "756 S Jason St"),
      Branch("WESCO", "WESCO", "Commerce City", "6883 E 47th Ave"),
      Branch("KVA Supply Co", "Acme", "Fort Collins", "133 Commerce Dr"),
      Without(AuroraWesco, "address1") }

PoolSuccess ==
    { DenverKVA, DenverKVANoOp, PuebloWesco, AuroraWesco, AcmeDenver,
      [name |-> Str("Graybar")],
      Branch("Kva Electric", "Wesco", "Pueblo", "756 S Jason St") }

PoolFilter ==
    { Branch("Graybar", "WESCO Distribution", "Denver", "1 Elm St"),
      Branch("WESCO Denver", "Acme", "Denver", "2 Elm St"),
      Branch("KVA Supply Co", "Acme", "Denver", "3 Elm St"),
      Branch("kva wesco", "KVA", "Denver", "4 Elm St"),
      Without(Branch("KVA Supply Co", "", "Denver", "6 Elm St"), "chain"),
      [city |-> Str("Denver"), address1 |-> Str("7 Elm St")] }

PoolDedup ==
    { Branch("WESCO", "WESCO", "Denver-North", "100 Main St"),
      Branch("WESCO", "WESCO", "Denver", "North-100 Main St"),
      Branch("WESCO", "WESCO", "Denver", "100 Main St"),
      Branch("KVA Supply Co", "WESCO", "Denver", "100 Main St"),
      Without(Branch("WESCO", "WESCO", "", "100 Main St"), "city"),
      Branch("WESCO", "WESCO", "None", "100 Main St") }

Init == InitWith(PoolChecks)
InitAnomaly == InitWith(PoolAnomaly)
InitDup == InitWith(PoolDup)
InitRemoved == InitWith(PoolRemoved)
InitSuccess == InitWith(PoolSuccess)
InitFilter == InitWith(PoolFilter)
InitDedup == InitWith(PoolDedup)

Spec == Init /\ [][Next]_vars
SpecAnomaly == InitAnomaly /\ [][Next]_vars
SpecDup == InitDup /\ [][Next]_vars
SpecRemoved == InitRemoved /\ [][Next]_vars
SpecSuccess == InitSuccess /\ [][Next]_vars
SpecFilter == InitFilter /\ [][Next]_vars
SpecDedup == InitDedup /\ [][Next]_vars

TypeOK ==
    /\ base_exists \in BOOLEAN
    /\ pc \in {"start", "scan", "dedup", "validate", "returned", "exited", "raised",
               "aborted"}
    /\ success \in BOOLEAN
    /\ exc \in {"none", "TypeError", "JSONDecodeError"}
    /\ ret \in {"none", "True", "False"}
    /\ exit_status \in {-1, 0, 1}
    /\ total_branches \in Nat

-----------------------------------------------------------------------------
(* Vocabulary of the properties, stated on the inputs and the aggregate    *)
(* without the operators of the run.                                       *)

\* the occurrences of branch records in the files that exist: <<file, position>>
Occurrences ==
    UNION { { <<i, k>> : k \in DOMAIN files[i].branches } :
              i \in { j \in 1..NumFiles : files[j].exists } }

RecordAt(o) == files[o[1]].branches[o[2]]

Records == { RecordAt(o) : o \in Occurrences }

\* file-list order, then intra-file order
Before(p, q) == p[1] < q[1] \/ (p[1] = q[1] /\ p[2] < q[2])

\* the text of a field; a missing or null field has none
Text(b, k) == IF k \in DOMAIN b /\ b[k] # None THEN b[k][1] ELSE ""

IsNull(b, k) == k \in DOMAIN b /\ b[k] = None

Matches(b) ==
    \/ In("WESCO", Text(b, "chain"))
    \/ In("WESCO", Text(b, "name"))
    \/ In("KVA", Text(b, "name"))

\* a value is a string that contains sub
Has(v, sub) == v # None /\ In(sub, v[1])

NoFilePresent == \A i \in 1..NumFiles : ~files[i].exists

AllPresentValid == \A i \in 1..NumFiles : files[i].exists => files[i].valid

Returned == pc \in {"returned", "exited"}

\* the scan loop ran to its end
ScanDone == pc = "dedup" \/ "SUMMARY" \in out

\* the validation step ran to its end
Validated == Returned /\ base_exists

Aggregate == { all_wesco_entries[k] : k \in DOMAIN all_wesco_entries }

DenverIdx ==
    { k \in DOMAIN all_wesco_entries :
        /\ all_wesco_entries[k].city = Str("Denver")
        /\ Has(all_wesco_entries[k].address, "11198 E 45th") }

PuebloIdx ==
    { k \in DOMAIN all_wesco_entries :
        /\ all_wesco_entries[k].city = Str("Pueblo")
        /\ Has(all_wesco_entries[k].address, "115 S Main") }

Forbidden == {"756 S Jason", "6883 E 47th", "133 Commerce"}

Check1 == Cardinality({ LocationKey(e) : e \in Aggregate }) = 2
Check2 == DenverIdx # {}
Check3 ==
    \A k \in DenverIdx :
        /\ all_wesco_entries[k].name = Str("KVA Supply Co")
        /\ all_wesco_entries[k].chain = Str("WESCO")
Check4 ==
    /\ Cardinality(PuebloIdx) = 1
    /\ \A k \in PuebloIdx : all_wesco_entries[k].chain = Str("WESCO")
Check5 == \A e \in Aggregate : \A a \in Forbidden : ~Has(e.address, a)

-----------------------------------------------------------------------------
(* Properties *)

Ended == pc \in {"exited", "aborted"}

AllChecks == Check1 /\ Check2 /\ Check3 /\ Check4 /\ Check5

\* C1: whenever the validation step runs to its end, the returned flag is true
\* (and the exit status 0) exactly when the five checks all pass: two unique
\* location keys, a Denver entry at 11198 E 45th, every such entry named
\* KVA Supply Co with chain WESCO, exactly one Pueblo entry at 115 S Main with
\* chain WESCO, and no aggregate entry at a forbidden address.
C1_ReturnIffAllChecks ==
    /\ Validated => (ret = "True" <=> AllChecks)
    /\ (pc = "exited" /\ base_exists) => (exit_status = 0 <=> AllChecks)

\* three unique locations, every other check passing: the run fails
C1_Witness ==
    /\ pc = "exited" /\ base_exists
    /\ Cardinality({ LocationKey(e) : e \in Aggregate }) = 3
    /\ Check2 /\ Check3 /\ Check4 /\ Check5
    /\ "WARNING: Denver operatingName" \in out
    /\ ret = "False" /\ exit_status = 1

\* C2 (as claimed): with the base directory present and every present file
\* valid JSON, the run never aborts with an exception.
C2_NeverAborts == (base_exists /\ AllPresentValid) => exc = "none"

\* C3 (as claimed): with none of the six files present, the run exits early
\* with the environment error, without running the checks, and fails.
C3_EarlyExitWithoutChecks ==
    (NoFilePresent /\ Returned) =>
        (ret = "False" /\ out = {"ERROR: directory not found"})

\* C3 (amended): with none of the six files present the run never succeeds and
\* never aborts; without the base directory it exits early with the
\* environment error and runs no check, with the base directory it runs the
\* checks on an empty aggregate, where the count, Denver and Pueblo checks fail.
C3_NoFilesNeverSucceeds ==
    NoFilePresent =>
        /\ exc = "none"
        /\ Returned => ret = "False"
        /\ pc = "exited" => exit_status = 1
        /\ (Returned /\ ~base_exists) => out = {"ERROR: directory not found"}
        /\ (Returned /\ base_exists) =>
              /\ "ERROR: directory not found" \notin out
              /\ { "FAIL: unique locations", "FAIL: Denver entry missing",
                   "FAIL: Pueblo entry count", "SOME CHECKS FAILED" } \subseteq out

\* the base directory exists, holds none of the files, and the checks ran
C3_Witness ==
    /\ NoFilePresent /\ base_exists
    /\ pc = "exited" /\ exit_status = 1
    /\ "FAIL: unique locations" \in out

IsValidDenver(b) ==
    /\ {"name", "chain", "city", "address1"} \subseteq DOMAIN b
    /\ b.name = Str("KVA Supply Co") /\ b.chain = Str("WESCO")
    /\ b.city = Str("Denver") /\ b.address1 = Str("11198 E 45th Ave")

IsValidPueblo(b) ==
    /\ {"name", "chain", "city", "address1"} \subseteq DOMAIN b
    /\ b.name = Str("WESCO") /\ b.chain = Str("WESCO")
    /\ b.city = Str("Pueblo") /\ b.address1 = Str("115 S Main St")

IsDuplicateDenver(b) ==
    /\ {"name", "city", "address1"} \subseteq DOMAIN b
    /\ b.name = Str("Other Co")
    /\ b.city = Str("Denver") /\ b.address1 = Str("11198 E 45th Ave")

HasValidPair ==
    /\ \E b \in Records : IsValidDenver(b)
    /\ \E b \in Records : IsValidPueblo(b)

\* C4 (as claimed): with the valid Denver and Pueblo entries and a duplicate
\* Denver entry named Other Co, the consistency check fails and the run exits
\* with 1, whatever the duplicate's chain.
C4_AnyChainFails ==
    (HasValidPair /\ (\E b \in Records : IsDuplicateDenver(b)) /\ pc = "exited") =>
        (exit_status = 1 /\ "FAIL: Denver entries inconsistent" \in out)

\* C4 (amended): with the valid Denver and Pueblo entries and a duplicate
\* Denver entry named Other Co whose chain is a string containing WESCO, the
\* run never returns success and ends with status 1; whenever it returns, the
\* consistency check has failed.
C4_WescoChainDuplicateFails ==
    (HasValidPair /\
     (\E b \in Records : IsDuplicateDenver(b) /\ In("WESCO", Text(b, "chain")))) =>
        /\ ret # "True"
        /\ Returned => (ret = "False" /\ "FAIL: Denver entries inconsistent" \in out)
        /\ Ended => exit_status = 1

\* the duplicate is the only thing wrong with the dataset
C4_Witness ==
    /\ HasValidPair
    /\ \E b \in Records : IsDuplicateDenver(b) /\ In("WESCO", Text(b, "chain"))
    /\ pc = "exited" /\ exit_status = 1
    /\ "FAIL: Denver entries inconsistent" \in out
    /\ Check1 /\ Check2 /\ Check4 /\ Check5

AtForbidden(b, a) == In(a, Text(b, "address1"))

\* C5 (as claimed): a branch record at a forbidden address, whatever its name
\* and chain, makes the "confirmed removed" check of that address fail and the
\* run fail.
C5_AnyRecordAtForbiddenFails ==
    \A a \in Forbidden :
        ((\E b \in Records : AtForbidden(b, a)) /\ pc = "exited") =>
            (exit_status = 1 /\ ("FAIL: not removed: " \o a) \in out)

\* C5 (amended): a branch record at a forbidden address that matches the
\* WESCO/KVA filter makes the run never return success and end with status 1;
\* whenever the run returns, the "confirmed removed" check of that address has
\* failed.
C5_MatchedRecordAtForbiddenFails ==
    \A a \in Forbidden :
        (\E b \in Records : Matches(b) /\ AtForbidden(b, a)) =>
            /\ ret # "True"
            /\ Returned => (ret = "False" /\ ("FAIL: not removed: " \o a) \in out)
            /\ Ended => exit_status = 1

\* the forbidden entry is reported while the Denver check passes
C5_Witness ==
    /\ \E b \in Records : Matches(b) /\ AtForbidden(b, "133 Commerce")
    /\ pc = "exited" /\ exit_status = 1
    /\ "FAIL: not removed: 133 Commerce" \in out
    /\ "PASS: removed: 756 S Jason" \in out
    /\ Check2 /\ Check3

\* the filter evaluates to false on b, without raising
NonMatching(b) == ~Matches(b) /\ ~IsNull(b, "chain") /\ ~IsNull(b, "name")

OnlyValidPairMatches ==
    /\ base_exists /\ AllPresentValid
    /\ Cardinality({ o \in Occurrences : IsValidDenver(RecordAt(o)) }) = 1
    /\ Cardinality({ o \in Occurrences : IsValidPueblo(RecordAt(o)) }) = 1
    /\ \A o \in Occurrences :
          \/ IsValidDenver(RecordAt(o))
          \/ IsValidPueblo(RecordAt(o))
          \/ NonMatching(RecordAt(o))

\* C6: when the only records the filter matches are one valid Denver entry and
\* one valid Pueblo entry, the run does not abort and returns success (exit 0),
\* wherever the records are, whatever non-matching records accompany them and
\* with or without operatingName.
C6_ValidPairSucceeds ==
    OnlyValidPairMatches =>
        /\ exc = "none"
        /\ Returned => ret = "True"
        /\ pc = "exited" => exit_status = 0

\* success with the pair in two files, a non-matching record and no operatingName
C6_Witness ==
    /\ OnlyValidPairMatches
    /\ pc = "exited" /\ exit_status = 0
    /\ \E o \in Occurrences : NonMatching(RecordAt(o))
    /\ "WARNING: Denver operatingName" \in out
    /\ \E j, k \in DOMAIN all_wesco_entries :
          all_wesco_entries[j].file # all_wesco_entries[k].file

MatchedOccurrences == { o \in Occurrences : Matches(RecordAt(o)) }

RankOf(o) == Cardinality({ q \in MatchedOccurrences : Before(q, o) }) + 1

\* C7: once the scan has run to its end, the aggregate holds one entry per
\* occurrence of a record with WESCO in chain or name or KVA in name (a missing
\* field counting as empty), and no other, in file-list then intra-file order.
C7_AggregateIsFilter ==
    ScanDone =>
        /\ Len(all_wesco_entries) = Cardinality(MatchedOccurrences)
        /\ \A o \in MatchedOccurrences :
              all_wesco_entries[RankOf(o)] = MakeEntry(o[1], RecordAt(o))

\* KVA in chain only is skipped, a record without chain is matched by its name,
\* and the aggregate spans two files
C7_Witness ==
    /\ pc = "dedup"
    /\ \E b \in Records : In("KVA", Text(b, "chain")) /\ ~Matches(b)
    /\ \E k \in DOMAIN all_wesco_entries : all_wesco_entries[k].chain = None
    /\ \E j, k \in DOMAIN all_wesco_entries :
          all_wesco_entries[j].file # all_wesco_entries[k].file

\* C8: check 4 passes exactly when one aggregate entry, before deduplication,
\* is in Pueblo at 115 S Main and its chain is WESCO; a repeated Pueblo entry
\* fails the run, a repeated Denver entry does not.
C8_PuebloCountedBeforeDedup ==
    Validated =>
        /\ "PASS: Pueblo" \in out <=> Check4
        /\ Cardinality(PuebloIdx) >= 2 => ret = "False"
        /\ (Check1 /\ Check2 /\ Check3 /\ Check4 /\ Check5) => ret = "True"

\* the Pueblo location in two files: two unique locations, and the run fails
C8_Witness ==
    /\ pc = "exited" /\ ret = "False"
    /\ Len(unique_locations) = 2
    /\ Cardinality(PuebloIdx) = 2
    /\ \E j, k \in PuebloIdx : all_wesco_entries[j].file # all_wesco_entries[k].file
    /\ Check1 /\ Check2 /\ Check3 /\ Check5

Deduped == ScanDone /\ pc # "dedup"

FirstWithKey(key) ==
    CHOOSE j \in DOMAIN all_wesco_entries :
        /\ LocationKey(all_wesco_entries[j]) = key
        /\ \A i \in 1..(j - 1) : LocationKey(all_wesco_entries[i]) # key

\* C9: deduplicating the retained entries, or the aggregate again, gives the
\* dict back; its keys are distinct and are the keys of the aggregate, and
\* the entry kept under a key is the first of the aggregate with that key.
C9_DedupIdempotent ==
    Deduped =>
        /\ Deduplicate(DictValues(unique_locations)) = unique_locations
        /\ Deduplicate(all_wesco_entries) = unique_locations
        /\ \A j, k \in DOMAIN unique_locations :
              unique_locations[j].key = unique_locations[k].key => j = k
        /\ { unique_locations[k].key : k \in DOMAIN unique_locations }
              = { LocationKey(e) : e \in Aggregate }
        /\ \A k \in DOMAIN unique_locations :
              unique_locations[k].entry
                 = all_wesco_entries[FirstWithKey(unique_locations[k].key)]

\* a later entry with the key of an earlier, different one has been dropped
C9_Witness ==
    /\ Deduped
    /\ Len(unique_locations) >= 2
    /\ \E j, k \in DOMAIN all_wesco_entries :
          /\ j < k
          /\ LocationKey(all_wesco_entries[j]) = LocationKey(all_wesco_entries[k])
          /\ all_wesco_entries[j].name # all_wesco_entries[k].name

\* C10 (as claimed): the unique-location count is the number of distinct
\* (city, address1) pairs of the aggregate.
C10_KeyInjective ==
    Deduped =>
        Len(unique_locations)
           = Cardinality({ <<e.city, e.address>> : e \in Aggregate })

====
